---- MODULE Spec2Model ----
(***************************************************************************)
(* Model of the download queue and dispatcher of the Pocket FM downloader  *)
(* (src/download_manager.py) together with the transfer routine it drives  *)
(* (PocketFMAPIHandler.download_file in src/api_handler.py).               *)
(*                                                                         *)
(* The dispatcher is one coroutine; pc is the await it is suspended at.    *)
(* Producers (the chat handlers) may enqueue between any two of its steps. *)
(* Every awaited call on a collaborator (Telegram, the upstream service,   *)
(* the file system) either returns or raises; the outcome is chosen by \E. *)
(***************************************************************************)
EXTENDS Integers, Sequences, FiniteSets, TLC

----------------------------------------------------------------------------
(* Bounds of the model *)

MaxItems == 2
MaxChunks == 2
MaxClock == 6
MaxHosts == 3
MaxCalls == 6
MaxRotations == 4

(* Program constants *)

ThrottleInterval == 2
NumBaseUrls == 4
RetryAttempts == 3
RetryDelay == 2
PrototypeBaseUrls == 3
PrototypeEndpoints == 4
QueueErrorDelay == 5

(* the dispatcher's clock runs to the first instant at which the throttle   *)
(* of a fresh download is open; longer spans are followed in TransferSpec   *)
MaxTime == ThrottleInterval + 1

----------------------------------------------------------------------------
(* episode ids of the upstream catalog: two, so that two items may name the *)
(* same local file or different ones                                        *)
Episodes == {1, 2}
ItemIds == 1..MaxItems

(* what a producer may hand to add_to_queue: a mapping with an id, or a     *)
(* value of the upstream listing that is no mapping at all                 *)
NotADict == [id |-> 0, dict |-> FALSE]
EpisodeValues == [id : Episodes, dict : {TRUE}] \cup {NotADict}

NoItem == [id |-> 0]
NoUrl == 0
NoResponse == 0
StreamUrl == 1
HttpStatuses == {200, 206, 404}

VARIABLES
    queue,        \* DownloadManager.queue: the asyncio.Queue, oldest first
    enqueued,     \* number of add_to_queue calls so far (gives each item its id)
    pc,           \* where the dispatcher coroutine is suspended
    item,         \* process_queue's local: the item being processed
    status_msg,   \* _process_item's local: TRUE once the status message exists
    stream_url,   \* _process_item's local
    via,          \* how control reaches the finally block: "try", "except", "raise"
    total_size,   \* download_file's local: advertised content-length (0 = none)
    downloaded,   \* download_file's local: chunks written so far
    last_update,  \* _process_item's last_update[0]
    now,          \* the event loop's clock
    files,        \* episode ids whose {DOWNLOAD_PATH}/{id}.mp3 exists
    phase,        \* history: phase of every item id
    started,      \* history: ids in the order they were dequeued
    finished,     \* history: ids in the order they reached a terminal phase
    log,          \* history: calls made for the current item, in order
    response_status  \* download_file: response.status while it is being tested

(* The API handler (api_handler.py): one shared instance, line 254 *)
VARIABLES
    base_urls,          \* self.base_urls: the registry's hosts, in order
    current_url_index,  \* self.current_url_index: the registry cursor
    calls,              \* history of registry calls made directly: [op, host, index]
    cpc,                \* position of the handler's caller
    oper,               \* the resolver operation in progress
    candidate,          \* position in that operation's list of endpoints
    attempt,            \* _make_request's loop variable
    reqs,               \* HTTP requests of the current _make_request
    start,              \* cursor at the start of the current _make_request
    response,           \* what _make_request returned
    ret,                \* what the resolver operation returned
    tried               \* the endpoints the operation has called _make_request for

api == <<base_urls, current_url_index, calls, cpc, oper, candidate, attempt,
         reqs, start, response, ret, tried>>

(* Several callers of _make_request on the one handler (api_handler.py,     *)
(* line 253): handlers.py and download_manager.py share it                  *)
VARIABLES
    callers,            \* per caller: position, loop variable, host of the request,
                        \* outcome of its previous request
    rotations           \* number of _rotate_url calls made so far

concurrent == <<callers, rotations>>

(* pocketfm_bot_fixed.py: PocketFMAPI.get_episode_download_url as called by *)
(* DownloadManager._download_and_upload                                     *)
VARIABLES
    ppc,                \* position in _download_and_upload
    pendpoint,          \* position in the list of endpoints
    pcursor,            \* PocketFMAPI.current_url_index
    plog,               \* outcome of the request made to each endpoint
    download_url        \* what get_episode_download_url returned

prototype == <<ppc, pendpoint, pcursor, plog, download_url>>

(* The upstream service as one call of get_stream_url meets it *)
VARIABLES
    upstream            \* the (host, endpoint) pair that answers 200, if fixed

service == <<upstream>>

(* everything the dispatcher of download_manager.py leaves alone *)
apis == <<api, concurrent, prototype, service>>

dispatcher == <<queue, enqueued, pc, item, status_msg, stream_url, via, total_size,
                downloaded, last_update, now, files, phase, started, finished, log,
                response_status>>

vars == <<queue, enqueued, pc, item, status_msg, stream_url, via, total_size,
          downloaded, last_update, now, files, phase, started, finished, log,
          response_status,
          base_urls, current_url_index, calls, cpc, oper, candidate, attempt,
          reqs, start, response, ret, tried,
          callers, rotations,
          ppc, pendpoint, pcursor, plog, download_url,
          upstream>>

locals == <<status_msg, stream_url, via, total_size, downloaded, last_update>>

Terminal == {"Done", "Degraded", "Failed"}
Active == {"Resolving", "Downloading", "Uploading"}

----------------------------------------------------------------------------
(* Helpers *)

Logged(op, ok) == log' = Append(log, [op |-> op, ok |-> ok])

SetPhase(ph) == phase' = [phase EXCEPT ![item.id] = ph]

ResetLocals ==
    /\ status_msg' = FALSE
    /\ stream_url' = NoUrl
    /\ via' = "try"
    /\ total_size' = 0
    /\ downloaded' = 0
    /\ last_update' = 0

(* _process_item returns to process_queue with the item in terminal phase ph *)
Return(ph) ==
    /\ pc' = "task_done"
    /\ SetPhase(ph)
    /\ finished' = Append(finished, item.id)
    /\ ResetLocals

(* a response body, or the absence of one *)
NoBody == [kind |-> "none"]
NoReturn == [kind |-> "pending"]

(* the callers of the shared handler: the search handler of handlers.py     *)
(* and the dispatcher's _process_item                                       *)
Callers == {"search", "resolve"}
IdleCaller == [pc |-> "idle", attempt |-> 0, host |-> 0, last |-> "none"]

(* an upstream whose answers are not fixed in advance *)
AnyUpstream == [host |-> 0, endpoint |-> 0]

(* a handler over a registry of n hosts between two calls, its cursor where *)
(* earlier calls left it, facing the upstream up                            *)
ApiAt(n, cursor, up) ==
    /\ base_urls = [i \in 1..n |-> i]
    /\ current_url_index = cursor
    /\ calls = <<>>
    /\ cpc = "idle"
    /\ oper = "none"
    /\ candidate = 0
    /\ attempt = 0
    /\ reqs = <<>>
    /\ start = 0
    /\ response = NoBody
    /\ ret = NoReturn
    /\ tried = <<>>
    /\ callers = [c \in Callers |-> IdleCaller]
    /\ rotations = 0
    /\ ppc = "idle"
    /\ pendpoint = 0
    /\ pcursor = 0
    /\ plog = <<>>
    /\ download_url = "pending"
    /\ upstream = up

(* PocketFMAPIHandler.__init__, lines 17-22, over a registry of n hosts *)
ApiFresh(n) == ApiAt(n, 0, AnyUpstream)

Init ==
    /\ ApiFresh(NumBaseUrls)
    /\ queue = <<>>
    /\ enqueued = 0
    /\ pc = "wait"
    /\ item = NoItem
    /\ status_msg = FALSE
    /\ stream_url = NoUrl
    /\ via = "try"
    /\ total_size = 0
    /\ downloaded = 0
    /\ last_update = 0
    /\ now \in 0..MaxTime
    /\ files = {}
    /\ phase = [i \in ItemIds |-> "None"]
    /\ started = <<>>
    /\ finished = <<>>
    /\ log = <<>>
    /\ response_status = NoResponse

----------------------------------------------------------------------------
(* add_to_queue: the put never blocks (the queue is unbounded).  An episode *)
(* that is not a mapping is still enqueued: line 31 raises after the put.  *)
(* a queue of bounded size, whose put waits while an item is queued *)
AddToQueue_Full(episode) ==
    /\ Len(queue) < 1
    /\ enqueued < MaxItems
    /\ enqueued' = enqueued + 1
    /\ queue' = Append(queue, [id |-> enqueued + 1,
                               episode |-> episode,
                               status |-> "queued"])
    /\ phase' = [phase EXCEPT ![enqueued + 1] = "Queued"]
    /\ UNCHANGED <<apis, response_status, pc, item, locals, now, files, started, finished, log>>

AddToQueue(episode) ==
    /\ enqueued < MaxItems
    /\ enqueued' = enqueued + 1
    /\ queue' = Append(queue, [id |-> enqueued + 1,
                               episode |-> episode,
                               status |-> "queued"])
    /\ phase' = [phase EXCEPT ![enqueued + 1] = "Queued"]
    /\ UNCHANGED <<apis, response_status, pc, item, locals, now, files, started, finished, log>>

(* a queue that hands out the newest item first *)
QueuePop_Lifo(q) == [item |-> q[Len(q)], rest |-> SubSeq(q, 1, Len(q) - 1)]

(* asyncio.Queue.get: the oldest item and the rest *)
QueuePop(q) == [item |-> Head(q), rest |-> Tail(q)]

(* a loop that starts _process_item as a task and returns to queue.get *)
DispatcherIdle_NoAwait == pc \notin {"queue_error", "sleep"}

(* process_queue awaits _process_item: it is at queue.get only between items *)
DispatcherIdle == pc = "wait"

QueueGet ==
    /\ DispatcherIdle
    /\ queue # <<>>
    /\ item' = QueuePop(queue).item
    /\ queue' = QueuePop(queue).rest
    /\ pc' = "process_item"
    /\ phase' = [phase EXCEPT ![QueuePop(queue).item.id] = "Resolving"]
    /\ started' = Append(started, QueuePop(queue).item.id)
    /\ log' = <<>>
    /\ ResetLocals
    /\ UNCHANGED <<apis, response_status, enqueued, now, files, finished>>

(* wait_for(..., timeout=30) raises TimeoutError on an empty queue: continue *)
GetTimeout ==
    /\ pc = "wait"
    /\ queue = <<>>
    /\ UNCHANGED vars

----------------------------------------------------------------------------
(* _process_item, lines 52-57: unpacking happens outside the try block, so  *)
(* episode.get on a non-mapping escapes to process_queue's handler.         *)
Unpack ==
    /\ pc = "process_item"
    /\ IF item.episode.dict
       THEN /\ pc' = "send_initial"
            /\ UNCHANGED <<phase, finished>>
       ELSE /\ pc' = "queue_error"
            /\ SetPhase("Failed")
            /\ finished' = Append(finished, item.id)
    /\ UNCHANGED <<apis, response_status, queue, enqueued, item, locals, now, files, started, log>>

(* lines 61-64: the initial status message *)
SendInitial ==
    /\ pc = "send_initial"
    /\ \E ok \in BOOLEAN :
        /\ Logged("resolving", ok)
        /\ status_msg' = ok
        /\ pc' = IF ok THEN "get_stream_url" ELSE "outer_except"
    /\ UNCHANGED <<apis, response_status, queue, enqueued, item, stream_url, via, total_size, downloaded,
                   last_update, now, files, phase, started, finished>>

(* the test of line 69 left out *)
AfterResolve_NoCheck(url) == "mkdir"

(* line 69: where control goes once get_stream_url has returned url *)
AfterResolve(url) == IF url = NoUrl THEN "edit_unresolved" ELSE "mkdir"

(* line 67: get_stream_url returns a location or None; it raises nothing,   *)
(* every candidate is tried inside its own try block.                      *)
GetStreamUrl ==
    /\ pc = "get_stream_url"
    /\ \E url \in {NoUrl, StreamUrl} :
        /\ stream_url' = url
        /\ Logged("get_stream_url", url # NoUrl)
        /\ pc' = AfterResolve(url)
    /\ UNCHANGED <<apis, response_status, queue, enqueued, item, status_msg, via, total_size, downloaded,
                   last_update, now, files, phase, started, finished>>

(* lines 70-75: report the unresolved location and return *)
EditUnresolved ==
    /\ pc = "edit_unresolved"
    /\ \E ok \in BOOLEAN :
        /\ Logged("url_failed", ok)
        /\ IF ok
           THEN Return("Failed")
           ELSE /\ pc' = "outer_except"
                /\ UNCHANGED <<locals, phase, finished>>
    /\ UNCHANGED <<apis, response_status, queue, enqueued, item, now, files, started>>

(* lines 78-82: the download directory and the throttle timestamp *)
Mkdir ==
    /\ pc = "mkdir"
    /\ \E ok \in BOOLEAN :
        /\ pc' = IF ok THEN "download" ELSE "outer_except"
    /\ last_update' = 0
    /\ UNCHANGED <<apis, response_status, queue, enqueued, item, status_msg, stream_url, via, total_size,
                   downloaded, now, files, phase, started, finished, log>>

----------------------------------------------------------------------------
(* The transfer: _process_item line 99 calling download_file                *)

(* a failed transfer tried again *)
AfterDownload_Retry(s) == IF s THEN "edit_uploading" ELSE "download"

(* the result of the transfer ignored *)
AfterDownload_IgnoreResult(s) == "edit_uploading"

(* lines 105-117: where control goes once download_file has returned s *)
AfterDownload(s) == IF s THEN "edit_uploading" ELSE "edit_dl_failed"

(* download_file returns s (lines 243, 246, 250) *)
DownloadReturn(s) ==
    /\ Logged("download_file", s)
    /\ pc' = AfterDownload(s)
    /\ phase' = IF s THEN [phase EXCEPT ![item.id] = "Uploading"] ELSE phase

CallDownload ==
    /\ pc = "download"
    /\ pc' = "dl_request"
    /\ Logged("download_call", TRUE)
    /\ SetPhase("Downloading")
    /\ UNCHANGED <<apis, response_status, queue, enqueued, item, locals, now, files, started, finished>>

(* a download_file that accepts a complete body only *)
OkStatuses_CompleteOnly == {200}

(* the statuses download_file accepts (line 228) *)
OkStatuses == {200, 206}

(* line 227: the request; session.get raises or a response arrives *)
DlRequest ==
    /\ pc = "dl_request"
    /\ \/ /\ DownloadReturn(FALSE)
          /\ UNCHANGED response_status
       \/ \E st \in HttpStatuses :
            /\ response_status' = st
            /\ pc' = "dl_status"
            /\ UNCHANGED <<phase, log>>
    /\ UNCHANGED <<apis, queue, enqueued, item, locals, now, files, started, finished>>

(* lines 228-233 and 244-246: the status test and the opening of the file;  *)
(* the status is not read again afterwards                                  *)
DlStatus ==
    /\ pc = "dl_status"
    /\ response_status' = NoResponse
    /\ IF response_status \in OkStatuses
       THEN \E total \in 0..MaxChunks, opened \in BOOLEAN :
              /\ total_size' = total
              /\ downloaded' = 0
              /\ IF opened
                 THEN /\ files' = files \cup {item.episode.id}
                      /\ pc' = "dl_chunk"
                      /\ UNCHANGED <<phase, log>>
                 ELSE /\ DownloadReturn(FALSE)
                      /\ UNCHANGED files
       ELSE \* lines 244-246: the status is logged and False returned
            /\ log' = Append(Append(log, [op |-> "http_error", ok |-> TRUE,
                                          status |-> response_status]),
                             [op |-> "download_file", ok |-> FALSE])
            /\ pc' = AfterDownload(FALSE)
            /\ UNCHANGED <<phase, total_size, downloaded, files>>
    /\ UNCHANGED <<apis, queue, enqueued, item, status_msg, stream_url, via, last_update,
                   now, started, finished>>

(* a throttle that lets every callback through *)
ThrottleOpen_NoWait(t, last) == t >= last

(* download_progress, line 86: the throttle test *)
ThrottleOpen(t, last) == t - last > ThrottleInterval

(* a callback that advances the timestamp inside its try block, after the   *)
(* edit: a failing edit leaves the throttle open                            *)
DownloadProgress_StampOnSuccess(percent, done, total, t) ==
    LET call == [op |-> "callback", ok |-> TRUE, percent |-> percent,
                 downloaded |-> done, total |-> total]
    IN  IF t - last_update > ThrottleInterval
        THEN \E ok \in BOOLEAN :
                /\ log' = Append(Append(log, call),
                                 [op |-> "progress", ok |-> ok, percent |-> percent, at |-> t])
                /\ last_update' = IF ok THEN t ELSE last_update
        ELSE /\ log' = Append(log, call)
             /\ UNCHANGED last_update

(* download_progress(percent, downloaded, total), lines 84-96: called at t,  *)
(* it edits the status message when the throttle is open; a failing edit is *)
(* swallowed and the timestamp is advanced all the same                     *)
DownloadProgress(percent, done, total, t) ==
    LET call == [op |-> "callback", ok |-> TRUE, percent |-> percent,
                 downloaded |-> done, total |-> total]
    IN  IF ThrottleOpen(t, last_update)
        THEN /\ \E ok \in BOOLEAN :
                  log' = Append(Append(log, call),
                                [op |-> "progress", ok |-> ok, percent |-> percent, at |-> t])
             /\ last_update' = t
        ELSE /\ log' = Append(log, call)
             /\ UNCHANGED last_update

(* download_file, line 238: the callback is called only for a known total *)
CallbackInvoked(total) == total > 0

(* download_file, line 239 *)
Percent(done, total) == (done * 100) \div total

(* download_file, lines 238-240, after the chunk that makes the count done *)
ProgressCallback(done) ==
    IF CallbackInvoked(total_size)
    THEN DownloadProgress(Percent(done, total_size), done, total_size, now)
    ELSE UNCHANGED <<log, last_update>>

(* line 234: iter_chunked ends normally only when the advertised length, if *)
(* any, has been received; a shorter body makes it raise                    *)
BodyComplete == total_size = 0 \/ downloaded >= total_size

(* lines 234-243: one turn of the chunk loop, or its end *)
DlChunk ==
    /\ pc = "dl_chunk"
    /\ \/ \* a chunk arrives and is written
          /\ downloaded < MaxChunks
          /\ downloaded' = downloaded + 1
          /\ ProgressCallback(downloaded + 1)
          /\ UNCHANGED <<pc, phase>>
       \/ \* the stream ends
          /\ BodyComplete
          /\ DownloadReturn(TRUE)
          /\ UNCHANGED <<downloaded, last_update>>
       \/ \* reading the stream or writing the file raises
          /\ DownloadReturn(FALSE)
          /\ UNCHANGED <<downloaded, last_update>>
    /\ UNCHANGED <<apis, response_status, queue, enqueued, item, status_msg, stream_url, via, total_size,
                   now, files, started, finished>>

(* time passes while the transfer is suspended on the network; the clock is *)
(* read by the progress callback only, so it is advanced only where a       *)
(* callback can still follow                                                *)
Elapse(limit) ==
    /\ pc = "dl_chunk"
    /\ total_size > 0
    /\ downloaded < MaxChunks
    /\ now < limit
    /\ now' = now + 1
    /\ UNCHANGED <<apis, response_status, queue, enqueued, pc, item, locals, files, phase, started,
                   finished, log>>

Tick == Elapse(MaxTime)

(* the same, over a span long enough for two status updates of one transfer *)
TickLong == Elapse(MaxClock)

(* lines 106-111 *)
EditDlFailed ==
    /\ pc = "edit_dl_failed"
    /\ \E ok \in BOOLEAN :
        /\ Logged("download_failed", ok)
        /\ IF ok
           THEN Return("Failed")
           ELSE /\ pc' = "outer_except"
                /\ UNCHANGED <<locals, phase, finished>>
    /\ UNCHANGED <<apis, response_status, queue, enqueued, item, now, files, started>>

(* lines 114-117 *)
EditUploading ==
    /\ pc = "edit_uploading"
    /\ \E ok \in BOOLEAN :
        /\ Logged("uploading", ok)
        /\ pc' = IF ok THEN "send_audio" ELSE "outer_except"
    /\ UNCHANGED <<apis, response_status, queue, enqueued, item, locals, now, files, phase, started,
                   finished>>

----------------------------------------------------------------------------
(* Delivery: the inner try / except / finally, lines 119-153                *)

(* the handler entered also when the try body completes *)
AfterTryStep_HandlerAlways(next, ok) ==
    IF ok /\ next # "cleanup" THEN next ELSE "inner_except"

(* a failed send_audio tried again *)
AfterTryStep_RetryDelivery(next, ok) ==
    IF ok THEN next ELSE IF next = "delete_status" THEN "send_audio" ELSE "inner_except"

(* line 139: a call of the try body that raises enters the handler *)
AfterTryStep(next, ok) == IF ok THEN next ELSE "inner_except"

(* line 120 *)
SendAudio ==
    /\ pc = "send_audio"
    /\ \E ok \in BOOLEAN :
        /\ Logged("send_audio", ok)
        /\ pc' = AfterTryStep("delete_status", ok)
    /\ UNCHANGED <<apis, response_status, queue, enqueued, item, locals, now, files, phase, started,
                   finished>>

(* line 128 *)
DeleteStatus ==
    /\ pc = "delete_status"
    /\ \E ok \in BOOLEAN :
        /\ Logged("delete_status", ok)
        /\ pc' = AfterTryStep("send_success", ok)
    /\ UNCHANGED <<apis, response_status, queue, enqueued, item, locals, now, files, phase, started,
                   finished>>

(* lines 130-137: the success message; after it the try body is complete *)
SendSuccess ==
    /\ pc = "send_success"
    /\ \E ok \in BOOLEAN :
        /\ Logged("success", ok)
        /\ pc' = AfterTryStep("cleanup", ok)
    /\ via' = "try"
    /\ UNCHANGED <<apis, response_status, queue, enqueued, item, status_msg, stream_url, total_size,
                   downloaded, last_update, now, files, phase, started, finished>>

(* lines 139-144: the handler of the inner try; its own edit may raise *)
InnerExcept ==
    /\ pc = "inner_except"
    /\ \E ok \in BOOLEAN :
        /\ Logged("upload_failed", ok)
        /\ via' = IF ok THEN "except" ELSE "raise"
    /\ pc' = "cleanup"
    /\ UNCHANGED <<apis, response_status, queue, enqueued, item, status_msg, stream_url, total_size,
                   downloaded, last_update, now, files, phase, started, finished>>

(* the cleanup written as the last statement of the try body *)
CleanupRuns_TryOnly(v) == v = "try"

(* line 146: the cleanup is a finally block, it runs however the try ended *)
CleanupRuns(v) == v \in {"try", "except", "raise"}

(* lines 146-153, then the return or the propagation of a pending exception *)
Cleanup ==
    /\ pc = "cleanup"
    /\ IF CleanupRuns(via) /\ item.episode.id \in files
       THEN \E removed \in BOOLEAN :
              /\ files' = IF removed THEN files \ {item.episode.id} ELSE files
              /\ log' = Append(log, [op |-> "remove", ok |-> removed])
       ELSE UNCHANGED <<files, log>>
    /\ IF via = "raise"
       THEN /\ pc' = "outer_except"
            /\ UNCHANGED <<locals, phase, finished>>
       ELSE Return(IF via = "try" THEN "Done" ELSE "Degraded")
    /\ UNCHANGED <<apis, response_status, queue, enqueued, item, now, started>>

(* lines 155-163: the handler at the item boundary *)
OuterExcept ==
    /\ pc = "outer_except"
    /\ IF status_msg
       THEN \E ok \in BOOLEAN : Logged("error", ok)
       ELSE UNCHANGED log
    /\ Return("Failed")
    /\ UNCHANGED <<apis, response_status, queue, enqueued, item, now, files, started>>

----------------------------------------------------------------------------
(* process_queue, lines 41-47 *)

(* line 41; the finished call's locals are dead *)
TaskDone ==
    /\ pc = "task_done"
    /\ pc' = "wait"
    /\ item' = NoItem
    /\ log' = <<>>
    /\ UNCHANGED <<apis, response_status, queue, enqueued, locals, now, files, phase, started, finished>>

(* a loop without the handler of line 45: the coroutine ends *)
QueueErrorNext_Stop == "stopped"

(* a handler that logs the error and goes straight back to queue.get *)
QueueErrorNext_NoDelay == "wait"

(* lines 45-47: an exception that escaped _process_item is logged, then the *)
(* loop sleeps                                                             *)
QueueErrorNext == "sleep"

(* line 47: the argument of asyncio.sleep is recorded in the history *)
Slept(seconds) == [op |-> "sleep", ok |-> TRUE, seconds |-> seconds]

QueueError ==
    /\ pc = "queue_error"
    /\ pc' = QueueErrorNext
    /\ log' = Append(log, Slept(QueueErrorDelay))
    /\ UNCHANGED <<apis, response_status, queue, enqueued, item, locals, now, files, phase, started,
                   finished>>

(* line 47 returns: back to the head of the loop *)
SleepDone ==
    /\ pc = "sleep"
    /\ pc' = "wait"
    /\ item' = NoItem
    /\ log' = <<>>
    /\ UNCHANGED <<apis, response_status, queue, enqueued, locals, now, files, phase, started, finished>>

----------------------------------------------------------------------------
Dispatcher ==
    \/ QueueGet
    \/ GetTimeout
    \/ Unpack
    \/ SendInitial
    \/ GetStreamUrl
    \/ EditUnresolved
    \/ Mkdir
    \/ CallDownload
    \/ DlRequest
    \/ DlStatus
    \/ DlChunk
    \/ EditDlFailed
    \/ EditUploading
    \/ SendAudio
    \/ DeleteStatus
    \/ SendSuccess
    \/ InnerExcept
    \/ Cleanup
    \/ OuterExcept
    \/ TaskDone
    \/ QueueError
    \/ SleepDone

Producer == \E episode \in EpisodeValues : AddToQueue(episode)

Next == Dispatcher \/ Producer \/ Tick

Spec == Init /\ [][Next]_vars

(* the event loop keeps resuming the dispatcher; every awaited call returns *)
FairSpec == Spec /\ WF_vars(Dispatcher)

(* One transfer followed over a longer span of time: the dispatcher with a  *)
(* single item already enqueued and no further producer.                    *)
TransferInit ==
    /\ ApiFresh(NumBaseUrls)
    /\ \E episode \in EpisodeValues :
          queue = <<[id |-> 1, episode |-> episode, status |-> "queued"]>>
    /\ enqueued = 1
    /\ pc = "wait"
    /\ item = NoItem
    /\ status_msg = FALSE
    /\ stream_url = NoUrl
    /\ via = "try"
    /\ total_size = 0
    /\ downloaded = 0
    /\ last_update = 0
    /\ now \in 0..MaxClock
    /\ files = {}
    /\ phase = [i \in ItemIds |-> IF i = 1 THEN "Queued" ELSE "None"]
    /\ started = <<>>
    /\ finished = <<>>
    /\ log = <<>>
    /\ response_status = NoResponse

TransferNext == Dispatcher \/ TickLong

TransferSpec == TransferInit /\ [][TransferNext]_vars

----------------------------------------------------------------------------
(* The endpoint registry: _get_base_url and _rotate_url *)

(* a cursor past the end brought back to the last host *)
NormalIndex_Clamp(i, n) == IF i >= n THEN n - 1 ELSE i

(* _get_base_url, lines 42-43: a cursor past the end is reset to 0 *)
NormalIndex_Advance(i, n) == (i + 1) % n

NormalIndex(i, n) == IF i >= n THEN 0 ELSE i

(* _rotate_url, line 48, on a cursor that saturates at the last host *)
NextIndex_Saturate(i, n) == IF i + 1 < n THEN i + 1 ELSE i

(* _rotate_url, line 48 *)
NextIndex(i, n) == (i + 1) % n

(* the host a cursor stands on, line 44 *)
HostAt(i) == base_urls[NormalIndex(i, Len(base_urls)) + 1]

(* the position of a host in the registry, and the host after it *)
PositionOf(h) == CHOOSE i \in 0..(Len(base_urls) - 1) : base_urls[i + 1] = h
HostAfter(h) == base_urls[((PositionOf(h) + 1) % Len(base_urls)) + 1]

(* _get_base_url called on its own *)
GetBaseUrl ==
    /\ cpc = "idle"
    /\ Len(calls) < MaxCalls
    /\ current_url_index' = NormalIndex(current_url_index, Len(base_urls))
    /\ calls' = Append(calls, [op |-> "current",
                               host |-> base_urls[current_url_index' + 1],
                               index |-> current_url_index',
                               before |-> current_url_index,
                               n |-> Len(base_urls)])
    /\ UNCHANGED <<dispatcher, service, concurrent, prototype, base_urls, cpc, oper,
                   candidate, attempt, reqs, start, response, ret, tried>>

(* _rotate_url called on its own; its log line reads the new host *)
RotateUrl ==
    /\ cpc = "idle"
    /\ Len(calls) < MaxCalls
    /\ current_url_index' =
          NormalIndex(NextIndex(current_url_index, Len(base_urls)), Len(base_urls))
    /\ calls' = Append(calls, [op |-> "rotate",
                               host |-> base_urls[current_url_index' + 1],
                               index |-> current_url_index',
                               before |-> current_url_index,
                               n |-> Len(base_urls)])
    /\ UNCHANGED <<dispatcher, service, concurrent, prototype, base_urls, cpc, oper,
                   candidate, attempt, reqs, start, response, ret, tried>>

(* what the dispatcher's variables are while only the handler is exercised *)
DispatcherIdleInit ==
    /\ queue = <<>>
    /\ enqueued = 0
    /\ pc = "wait"
    /\ item = NoItem
    /\ status_msg = FALSE
    /\ stream_url = NoUrl
    /\ via = "try"
    /\ total_size = 0
    /\ downloaded = 0
    /\ last_update = 0
    /\ now = 0
    /\ files = {}
    /\ phase = [i \in ItemIds |-> "None"]
    /\ started = <<>>
    /\ finished = <<>>
    /\ log = <<>>
    /\ response_status = NoResponse

(* a handler over a registry of any size from 1 to MaxHosts *)
ApiInit ==
    /\ DispatcherIdleInit
    /\ \E n \in 1..MaxHosts : ApiFresh(n)

RegistryNext == GetBaseUrl \/ RotateUrl

RegistrySpec == ApiInit /\ [][RegistryNext]_vars

(* base_urls is the list object of config.POCKETFM_BASE_URLS (line 18),     *)
(* which code outside the handler can shorten; it is never emptied here     *)
ShortenHosts ==
    /\ cpc = "idle"
    /\ Len(calls) < MaxCalls
    /\ Len(base_urls) >= 2
    /\ base_urls' = SubSeq(base_urls, 1, Len(base_urls) - 1)
    /\ calls' = Append(calls, [op |-> "shorten",
                               host |-> 0,
                               index |-> current_url_index,
                               before |-> current_url_index,
                               n |-> Len(base_urls) - 1])
    /\ UNCHANGED <<dispatcher, service, concurrent, prototype, current_url_index, cpc, oper,
                   candidate, attempt, reqs, start, response, ret, tried>>

MutableRegistryNext == GetBaseUrl \/ RotateUrl \/ ShortenHosts

(* the registry used while its host list is being shortened from outside *)
MutableRegistrySpec == ApiInit /\ [][MutableRegistryNext]_vars

----------------------------------------------------------------------------
(* _make_request, lines 51-88 *)

(* what one HTTP request can come to: a status, the timeout of the session, *)
(* or any other exception raised inside the try (a connection error, a 200  *)
(* whose body is not JSON)                                                  *)
Statuses == {"200", "404", "429", "503", "500"}
Outcomes == Statuses \cup {"timeout", "error"}

(* line 65: for attempt in range(self.retry_attempts) *)
MoreAttempts_OneMore(att) == att <= RetryAttempts

MoreAttempts(att) == att < RetryAttempts

(* lines 74-76 and 84-86: the outcomes after which the cursor is rotated *)
RotatesOn_ErrorsOnly(outcome) == outcome = "error"

(* a cursor rotated away from an overloaded host as well *)
RotatesOn_Overload(outcome) == outcome \in {"404", "error", "429", "503"}

(* a cursor rotated after every attempt that did not succeed *)
RotatesOn_AnyFailure(outcome) == outcome # "200"

RotatesOn(outcome) == outcome \in {"404", "error"}

(* a linear backoff after every attempt that did not succeed *)
SleepAfter_BackoffAll(outcome, att) ==
    IF outcome = "200" THEN 0 ELSE RetryDelay * (att + 1)

(* the same delay after an overload as after a timeout *)
SleepAfter_Flat(outcome, att) ==
    IF outcome \in {"429", "503", "timeout"} THEN RetryDelay ELSE 0

(* a loop that returns at once after its last attempt *)
SleepAfter_SkipLast(outcome, att) ==
    IF att + 1 >= RetryAttempts THEN 0
    ELSE IF outcome \in {"429", "503"} THEN RetryDelay * (att + 1)
    ELSE IF outcome = "timeout" THEN RetryDelay
    ELSE 0

(* lines 77-78 and 80-82: the delay slept after an outcome *)
SleepAfter(outcome, att) ==
    IF outcome \in {"429", "503"} THEN RetryDelay * (att + 1)
    ELSE IF outcome = "timeout" THEN RetryDelay
    ELSE 0

(* JSON values as far as the extraction rules tell them apart; "absent" is  *)
(* a key that the body does not have                                        *)
Truthy(v) == v \in {"list", "dict", "dictseries", "string"}
HasGet(v) == v \in {"emptydict", "dict", "dictseries"}

(* dict.get(key, default) *)
Get(d, key, default) ==
    IF key \in DOMAIN d /\ d[key] # "absent" THEN d[key] ELSE default

DictBody(f) == [kind |-> "dict", f |-> f]

(* the bodies an endpoint of an operation may answer with: JSON null, an    *)
(* empty container, a non-empty value that is not an object, or an object   *)
Bodies(op) ==
    {NoBody, [kind |-> "falsy"], [kind |-> "nondict"]} \cup
    CASE op = "search" ->
           {DictBody(f) : f \in [results : {"absent", "list"},
                                 data : {"absent", "null", "emptydict", "list",
                                         "dict", "dictseries"},
                                 series : {"absent", "list"}]}
      [] op = "episodes" ->
           {DictBody(f) : f \in [episodes : {"absent", "list"},
                                 data : {"absent", "null", "list"},
                                 items : {"absent", "list"}]}
      [] op = "stream" ->
           {DictBody(f) : f \in [url : {"absent", "null", "string"},
                                 stream_url : {"absent", "string"}]}
      [] OTHER -> {DictBody([title |-> "string"])}

(* lines 72-86: what _make_request does with the outcome of the request it  *)
(* sent to the current host                                                 *)
Answer(outcome, body) ==
    LET n == Len(base_urls)
        idx == NormalIndex(current_url_index, n)
        sent == Append(reqs, [host |-> base_urls[idx + 1],
                              outcome |-> outcome,
                              body |-> body,
                              sleep |-> SleepAfter(outcome, attempt)])
    IN  IF outcome = "200"
        THEN /\ reqs' = sent
             /\ response' = body
             /\ current_url_index' = idx
             /\ cpc' = "extract"
             /\ UNCHANGED attempt
        ELSE /\ reqs' = sent
             /\ current_url_index' =
                   IF RotatesOn(outcome)
                   THEN NormalIndex(NextIndex(idx, n), n)
                   ELSE idx
             /\ attempt' = attempt + 1
             /\ cpc' = IF MoreAttempts(attempt + 1) THEN "request" ELSE "extract"
             /\ UNCHANGED response

(* one iteration of the loop, lines 66-86: a request to the current host    *)
(* and the handling of its outcome                                          *)
Attempt ==
    /\ cpc = "request"
    /\ \/ \E body \in Bodies(oper) : Answer("200", body)
       \/ \E outcome \in Outcomes \ {"200"} : Answer(outcome, NoBody)
    /\ UNCHANGED <<dispatcher, service, concurrent, prototype, base_urls, calls, oper,
                   candidate, start, ret, tried>>

(* lines 63-65: entry of _make_request for the current endpoint *)
MakeRequest ==
    /\ cpc = "call"
    /\ attempt' = 0
    /\ reqs' = <<>>
    /\ start' = current_url_index
    /\ response' = NoBody
    /\ tried' = Append(tried, [endpoint |-> candidate, usable |-> "pending"])
    /\ cpc' = IF MoreAttempts(0) THEN "request" ELSE "extract"
    /\ UNCHANGED <<dispatcher, service, concurrent, prototype, base_urls, current_url_index,
                   calls, oper, candidate, ret>>

----------------------------------------------------------------------------
(* _make_request called by several coroutines of the one event loop on the  *)
(* shared handler.  A coroutine is suspended only at an await that waits:   *)
(* for the response (line 71) and in asyncio.sleep (lines 78, 82); what     *)
(* lies between two such points runs without interleaving.  _rotate_url     *)
(* and _get_base_url contain no such await.                                 *)

(* _rotate_url computed from the cursor as it was when the request was sent *)
RotateBase_Stale(stale, live) == stale

(* line 48 reads self.current_url_index at the moment of the rotation *)
RotateBase(stale, live) == live

(* line 63-65: a caller enters _make_request *)
Begin(c) ==
    /\ callers[c].pc \in {"idle", "done"}
    /\ rotations < MaxRotations
    /\ callers' = [callers EXCEPT ![c] = [pc |-> "ready", attempt |-> 0, host |-> 0,
                                          last |-> "none"]]
    /\ UNCHANGED <<dispatcher, service, api, prototype, rotations>>

(* lines 66-71: the current host is read and the request sent *)
Send(c) ==
    /\ callers[c].pc = "ready"
    /\ current_url_index' = NormalIndex(current_url_index, Len(base_urls))
    /\ callers' = [callers EXCEPT ![c].pc = "sent",
                                  ![c].host = base_urls[current_url_index' + 1]]
    /\ UNCHANGED <<dispatcher, service, prototype, rotations, base_urls, calls, cpc, oper,
                   candidate, attempt, reqs, start, response, ret, tried>>

(* lines 72-86: the outcome of the request is handled, up to the next       *)
(* suspension: the sleep of lines 79 and 83, or, after an outcome that is   *)
(* followed by no sleep, the request of the next iteration, whose host is   *)
(* read (line 67) right after the rotation                                  *)
Receive(c) ==
    /\ callers[c].pc = "sent"
    /\ \E outcome \in Outcomes :
         LET n == Len(base_urls)
             from == RotateBase(PositionOf(callers[c].host), current_url_index)
             att == callers[c].attempt + 1
             next == IF RotatesOn(outcome)
                     THEN NormalIndex(NextIndex(from, n), n)
                     ELSE NormalIndex(current_url_index, n)
             sleeps == SleepAfter(outcome, callers[c].attempt) > 0
         IN  IF outcome = "200"
             THEN /\ callers' = [callers EXCEPT ![c].pc = "done", ![c].last = outcome]
                  /\ UNCHANGED <<current_url_index, rotations>>
             ELSE /\ current_url_index' = next
                  /\ rotations' = IF RotatesOn(outcome) THEN rotations + 1 ELSE rotations
                  /\ callers' = [callers EXCEPT
                                    ![c].attempt = att,
                                    ![c].last = outcome,
                                    ![c].pc = IF ~MoreAttempts(att) THEN "done"
                                              ELSE IF sleeps THEN "ready"
                                              ELSE "sent",
                                    ![c].host = IF MoreAttempts(att) /\ ~sleeps
                                                THEN base_urls[next + 1]
                                                ELSE @]
    /\ UNCHANGED <<dispatcher, service, prototype, base_urls, calls, cpc, oper,
                   candidate, attempt, reqs, start, response, ret, tried>>

ConcurrentNext == \E c \in Callers : Begin(c) \/ Send(c) \/ Receive(c)

ConcurrentSpec == ApiInit /\ [][ConcurrentNext]_vars

----------------------------------------------------------------------------
(* pocketfm_bot_fixed.py: DownloadManager._download_and_upload up to the    *)
(* call of download_episode, with PocketFMAPI.get_episode_download_url      *)

(* what the request to one endpoint comes to (lines 266-283): a 200 whose   *)
(* body holds "url" or "stream_url", a 200 without them, another status,    *)
(* or an exception                                                          *)
PrototypeOutcomes == {"url", "nourl", "status", "error"}

(* line 407: if not download_url *)
NoDownloadUrl(u) == u = "none"

(* lines 401-404: the first status message; if it raises, the handler of    *)
(* line 449 ends the item                                                   *)
PStart ==
    /\ ppc = "idle"
    /\ \E ok \in BOOLEAN :
          IF ok
          THEN /\ ppc' = "resolve"
               /\ pendpoint' = 1
          ELSE /\ ppc' = "failed"
               /\ UNCHANGED pendpoint
    /\ plog' = <<>>
    /\ download_url' = "pending"
    /\ UNCHANGED <<dispatcher, service, api, concurrent, pcursor>>

(* get_episode_download_url, lines 260-287: the request to one endpoint;    *)
(* after the last endpoint the function returns a URL it builds itself      *)
PRequest ==
    /\ ppc = "resolve"
    /\ \E outcome \in PrototypeOutcomes :
          LET host == NormalIndex(pcursor, PrototypeBaseUrls)
          IN  /\ plog' = Append(plog, [endpoint |-> pendpoint, host |-> host,
                                       outcome |-> outcome])
              /\ pcursor' = IF outcome = "error"
                            THEN NextIndex(host, PrototypeBaseUrls)
                            ELSE host
              /\ IF outcome = "url"
                 THEN /\ download_url' = "upstream"
                      /\ ppc' = "check"
                      /\ UNCHANGED pendpoint
                 ELSE IF pendpoint < PrototypeEndpoints
                 THEN /\ pendpoint' = pendpoint + 1
                      /\ UNCHANGED <<ppc, download_url>>
                 ELSE /\ download_url' = "fabricated"
                      /\ ppc' = "check"
                      /\ UNCHANGED pendpoint
    /\ UNCHANGED <<dispatcher, service, api, concurrent>>

(* lines 407-409: without a URL the item ends with the failure status *)
PCheck ==
    /\ ppc = "check"
    /\ ppc' = IF NoDownloadUrl(download_url) THEN "failed" ELSE "download"
    /\ UNCHANGED <<dispatcher, service, api, concurrent, pendpoint, pcursor, plog, download_url>>

(* line 427: download_episode is called with the URL *)
PDownload ==
    /\ ppc = "download"
    /\ ppc' = "downloading"
    /\ UNCHANGED <<dispatcher, service, api, concurrent, pendpoint, pcursor, plog, download_url>>

(* the rest of the item; the loop takes the next one *)
PFinish ==
    /\ ppc \in {"failed", "downloading"}
    /\ ppc' = "idle"
    /\ pendpoint' = 0
    /\ plog' = <<>>
    /\ download_url' = "pending"
    /\ UNCHANGED <<dispatcher, service, api, concurrent, pcursor>>

PrototypeNext == PStart \/ PRequest \/ PCheck \/ PDownload \/ PFinish

PrototypeSpec == ApiInit /\ [][PrototypeNext]_vars

----------------------------------------------------------------------------
(* The resolver operations, lines 90-212 *)

Operations == {"search", "details", "episodes", "stream"}

(* the number of endpoints an operation tries, lines 98-103, 131-135,       *)
(* 151-155 and 187-192                                                      *)
Endpoints(op) == IF op \in {"search", "stream"} THEN 4 ELSE 3

(* lines 126, 146, 179, 212 *)
UnresolvedValue(op) ==
    IF op \in {"search", "episodes"} THEN [kind |-> "emptylist"] ELSE [kind |-> "none"]

Extracted(raised, value, rule) == [raised |-> raised, value |-> value, rule |-> rule]

(* search_series, lines 109-114 *)
SearchResults(d) ==
    LET r1 == Get(d, "results", "emptylist")
        dd == Get(d, "data", "emptydict")
        r2 == IF dd = "dictseries" THEN "list" ELSE "emptylist"
        r3 == Get(d, "data", "emptylist")
        r4 == Get(d, "series", "emptylist")
    IN  IF Truthy(r1) THEN Extracted(FALSE, r1, 1)
        ELSE IF ~HasGet(dd) THEN Extracted(TRUE, "absent", 2)
        ELSE IF Truthy(r2) THEN Extracted(FALSE, r2, 2)
        ELSE IF Truthy(r3) THEN Extracted(FALSE, r3, 3)
        ELSE Extracted(FALSE, r4, 4)

(* get_episodes, lines 166-170 *)
EpisodeList(d) ==
    LET r1 == Get(d, "episodes", "emptylist")
        r2 == Get(d, "data", "emptylist")
        r3 == Get(d, "items", "emptylist")
    IN  IF Truthy(r1) THEN Extracted(FALSE, r1, 1)
        ELSE IF Truthy(r2) THEN Extracted(FALSE, r2, 2)
        ELSE Extracted(FALSE, r3, 3)

(* get_stream_url, line 203 *)
StreamField(d) ==
    LET r1 == Get(d, "url", "null")
        r2 == Get(d, "stream_url", "null")
    IN  IF Truthy(r1) THEN Extracted(FALSE, r1, 1) ELSE Extracted(FALSE, r2, 2)

(* what an operation makes of the response of one endpoint: nothing if the  *)
(* response is falsy; get_series_details takes the response as it is; the   *)
(* others call .get on it, which raises unless it is an object              *)
ExtractFrom(op, body) ==
    IF body.kind \in {"none", "falsy"} THEN Extracted(FALSE, "absent", 0)
    ELSE IF op = "details" THEN Extracted(FALSE, "dict", 0)
    ELSE IF body.kind = "nondict" THEN Extracted(TRUE, "absent", 1)
    ELSE IF op = "search" THEN SearchResults(body.f)
    ELSE IF op = "episodes" THEN EpisodeList(body.f)
    ELSE StreamField(body.f)

(* a loop that goes on to the next endpoint whatever it extracted *)
AfterExtract_KeepGoing(x) == "next"

(* an exception of the extraction that leaves the operation *)
AfterExtract_Propagate(x) ==
    IF x.raised THEN "raise" ELSE IF Truthy(x.value) THEN "return" ELSE "next"

(* an operation that gives up at the first answer it can extract nothing    *)
(* from                                                                     *)
AfterExtract_EmptyEnds(x) ==
    IF x.raised THEN "next" ELSE IF Truthy(x.value) THEN "return" ELSE "giveup"

(* lines 116-123: a usable value is returned; anything else, an exception   *)
(* caught at line 122 included, moves on to the next endpoint               *)
AfterExtract(x) ==
    IF x.raised THEN "next" ELSE IF Truthy(x.value) THEN "return" ELSE "next"

(* a caller starts an operation *)
StartOp(op) ==
    /\ cpc \in {"idle", "returned"}
    /\ oper' = op
    /\ candidate' = 1
    /\ ret' = NoReturn
    /\ reqs' = <<>>
    /\ response' = NoBody
    /\ tried' = <<>>
    /\ cpc' = "call"
    /\ UNCHANGED <<dispatcher, service, concurrent, prototype, base_urls, current_url_index,
                   calls, attempt, start>>

(* the rest of the loop body after _make_request has returned *)
Extract ==
    /\ cpc = "extract"
    /\ LET x == ExtractFrom(oper, response)
           then == AfterExtract(x)
           usable == IF ~x.raised /\ Truthy(x.value) THEN "yes" ELSE "no"
       IN  /\ tried' = [tried EXCEPT ![Len(tried)].usable = usable]
           /\ CASE then = "return" ->
                  /\ ret' = [kind |-> "value", value |-> x.value, rule |-> x.rule]
                  /\ cpc' = "returned"
                  /\ UNCHANGED candidate
             [] then = "raise" ->
                  /\ cpc' = "raised"
                  /\ UNCHANGED <<ret, candidate>>
             [] then = "next" /\ candidate < Endpoints(oper) ->
                  /\ candidate' = candidate + 1
                  /\ cpc' = "call"
                  /\ UNCHANGED ret
             [] OTHER ->
                  /\ ret' = UnresolvedValue(oper)
                  /\ cpc' = "returned"
                  /\ UNCHANGED candidate
    /\ UNCHANGED <<dispatcher, service, concurrent, prototype, base_urls, current_url_index, calls, oper, attempt,
                   reqs, start, response>>

Resolver == \E op \in Operations : StartOp(op)

ClientNext == Resolver \/ MakeRequest \/ Attempt \/ Extract

ClientSpec == ApiInit /\ [][ClientNext]_vars

----------------------------------------------------------------------------
(* get_stream_url against an upstream on which one (host, endpoint) pair    *)
(* answers 200 with a stream location and every other pair answers 404,     *)
(* with the default registry of NumBaseUrls hosts                           *)

UsableStream == DictBody([url |-> "string", stream_url |-> "absent"])

TrialInit ==
    /\ DispatcherIdleInit
    /\ \E c \in 0..(NumBaseUrls - 1), h \in 1..NumBaseUrls, e \in 1..Endpoints("stream") :
          ApiAt(NumBaseUrls, c, [host |-> h, endpoint |-> e])

(* one iteration of the loop of _make_request, answered by that upstream *)
TrialAttempt ==
    /\ cpc = "request"
    /\ IF /\ HostAt(current_url_index) = upstream.host
          /\ candidate = upstream.endpoint
       THEN Answer("200", UsableStream)
       ELSE Answer("404", NoBody)
    /\ UNCHANGED <<dispatcher, service, concurrent, prototype, base_urls, calls, oper,
                   candidate, start, ret, tried>>

TrialNext == StartOp("stream") \/ MakeRequest \/ TrialAttempt \/ Extract

TrialSpec == TrialInit /\ [][TrialNext]_vars

----------------------------------------------------------------------------
(* Reading the history of the current item *)

Count(op) == Cardinality({k \in 1..Len(log) : log[k].op = op})
Has(op) == \E k \in 1..Len(log) : log[k].op = op
HasOk(op) == \E k \in 1..Len(log) : log[k].op = op /\ log[k].ok
HasFail(op) == \E k \in 1..Len(log) : log[k].op = op /\ ~log[k].ok

(* _process_item has returned and the loop has not yet gone on *)
Returned == pc = "task_done"

(* calls that tell the requester something; the last five are terminal *)
NotifyOps == {"resolving", "progress", "uploading", "delete_status",
              "url_failed", "download_failed", "success", "upload_failed", "error"}
TerminalOps == {"url_failed", "download_failed", "success", "upload_failed", "error"}

----------------------------------------------------------------------------
(* C1: items are processed in the order add_to_queue enqueued them: the     *)
(* k-th item dequeued is the k-th item enqueued, items reach their terminal *)
(* phase in that same order, and an item is dequeued only when every item   *)
(* dequeued before it has reached its terminal phase.                       *)
C1_FifoOrder ==
    /\ started = [k \in 1..Len(started) |-> k]
    /\ Len(finished) <= Len(started)
    /\ finished = SubSeq(started, 1, Len(finished))
    /\ Len(started) - Len(finished) <= 1
    /\ \A k \in 1..Len(queue) : queue[k].id = Len(started) + k

C1_Witness ==
    /\ Len(finished) >= 2
    /\ finished[1] = 1
    /\ finished[2] = 2

(* C2: at most one item is in a phase between Queued and terminal, and it   *)
(* is the item the dispatcher holds, however many items producers enqueue.  *)
C2_SingleActive ==
    /\ Cardinality({i \in ItemIds : phase[i] \in Active}) <= 1
    /\ \A i \in ItemIds : phase[i] \in Active => item.id = i

C2_Witness ==
    \E i, j \in ItemIds : phase[i] = "Downloading" /\ phase[j] = "Queued"

(* C3: when get_stream_url returns no location, neither download_file nor   *)
(* send_audio is called for the item, no download-failure status is sent,   *)
(* and the item ends Failed with the status naming the stream URL sent.     *)
Unresolved == HasFail("get_stream_url")

C3_UnresolvedFails ==
    Unresolved =>
        /\ ~Has("download_call")
        /\ ~Has("send_audio")
        /\ ~Has("download_failed")
        /\ phase[item.id] \in {"Resolving", "Failed"}
        /\ Returned => phase[item.id] = "Failed" /\ Has("url_failed")

C3_Witness == Unresolved /\ Returned /\ HasOk("url_failed")

(* the three steps of an item that the dispatcher drives *)
Resolved == HasOk("get_stream_url")
Downloaded == HasOk("download_file")
Delivered == HasOk("send_audio")

(* C4: when the download succeeded and send_audio failed, the item ends in  *)
(* the degraded-success state and its local file is still on disk once      *)
(* _process_item has returned.                                              *)
C4_ArtifactPreserved ==
    (Returned /\ Downloaded /\ HasFail("send_audio")) =>
        /\ phase[item.id] = "Degraded"
        /\ item.episode.id \in files

(* C5 as claimed: when resolution, download and delivery succeeded, the     *)
(* local file no longer exists once _process_item has returned.             *)
C5_ArtifactGone ==
    (Returned /\ Resolved /\ Downloaded /\ Delivered) =>
        item.episode.id \notin files

(* C5 as amended: when resolution, download and delivery succeeded, the     *)
(* removal of the local file has been attempted by the time _process_item   *)
(* returns, also when deleting the status message or sending the success    *)
(* message failed, and the file is still on disk only if that removal       *)
(* itself failed (os.remove raised, which line 152 swallows).               *)
C5_CleanupAttempted ==
    (Returned /\ Resolved /\ Downloaded /\ Delivered) =>
        /\ Has("remove")
        /\ item.episode.id \in files => HasFail("remove")

C5_Witness ==
    /\ Returned /\ Resolved /\ Downloaded /\ Delivered
    /\ HasFail("success")
    /\ HasOk("remove")
    /\ item.episode.id \notin files

(* C6: when resolution, download, delivery and every notification of an     *)
(* item succeeded, exactly one terminal notification was sent for it, the   *)
(* success message, and the item is Done.                                   *)
AllSucceeded ==
    /\ Resolved /\ Downloaded /\ Delivered
    /\ \A k \in 1..Len(log) : log[k].op \in NotifyOps => log[k].ok

C6_OneSuccessNotice ==
    (Returned /\ AllSucceeded) =>
        /\ Count("success") = 1
        /\ \A k \in 1..Len(log) : log[k].op \in TerminalOps => log[k].op = "success"
        /\ phase[item.id] = "Done"

C6_Witness == Returned /\ AllSucceeded /\ Has("progress") /\ Count("success") = 1

(* C7: no error of an item ends the dispatcher loop: whatever step raised  *)
(* or failed, the dispatcher comes back to queue.get, and an item queued    *)
(* behind an item that ended Failed is dequeued in its turn.                *)
C7_LoopSurvives ==
    /\ (pc # "wait") ~> (pc = "wait")
    /\ \A i \in 1..(MaxItems - 1) :
         (phase[i] = "Failed" /\ phase[i + 1] = "Queued") ~> (phase[i + 1] # "Queued")

C7_Witness == phase[1] = "Failed" /\ phase[2] = "Resolving" /\ pc = "send_initial"

(* C8: under fairness of the dispatcher, with every awaited call returning, *)
(* every enqueued item is eventually dequeued and eventually reaches a      *)
(* terminal phase (Done, degraded success or Failed).                       *)
C8_EveryItemEnds ==
    \A i \in ItemIds :
        /\ (phase[i] = "Queued") ~> (phase[i] \in Active \cup Terminal)
        /\ (phase[i] \in Active \cup {"Queued"}) ~> (phase[i] \in Terminal)

C8_Witness == queue = <<>> /\ phase[1] \in Terminal /\ phase[2] \in Terminal

(* C9 as claimed: an item changes phase only along Queued, Resolving,       *)
(* Downloading, Uploading, Done, or from a phase in progress to Failed.     *)
PhaseStepClaimed(a, b) ==
    \/ a = "None" /\ b = "Queued"
    \/ a = "Queued" /\ b = "Resolving"
    \/ a = "Resolving" /\ b = "Downloading"
    \/ a = "Downloading" /\ b = "Uploading"
    \/ a = "Uploading" /\ b = "Done"
    \/ a \in Active /\ b = "Failed"

C9_ClaimedOrder ==
    [][ \A i \in ItemIds :
          phase'[i] # phase[i] => PhaseStepClaimed(phase[i], phase'[i]) ]_vars

(* C9 as amended: an item changes phase only along Queued, Resolving,       *)
(* Downloading, Uploading, then Done or degraded success, or from a phase   *)
(* in progress to Failed; Downloading is entered only with a stream URL,    *)
(* Uploading only after download_file returned success, no terminal phase   *)
(* is left, and the status notifications of an item come in the order       *)
(* resolving, progress, uploading, terminal.                                *)
PhaseStep(a, b) ==
    \/ PhaseStepClaimed(a, b)
    \/ a = "Uploading" /\ b = "Degraded"

StatusOps == {"resolving", "progress", "uploading"} \cup TerminalOps

Rank(op) ==
    CASE op = "resolving" -> 0
      [] op = "progress" -> 1
      [] op = "uploading" -> 2
      [] OTHER -> 3

NoticesOrdered(l) ==
    /\ \A j, k \in 1..Len(l) :
         (j < k /\ l[j].op \in StatusOps /\ l[k].op \in StatusOps)
            => Rank(l[j].op) <= Rank(l[k].op)
    /\ Cardinality({k \in 1..Len(l) : l[k].op = "resolving"}) <= 1
    /\ Cardinality({k \in 1..Len(l) : l[k].op = "uploading"}) <= 1

C9_PhaseOrder ==
    [][ /\ \A i \in ItemIds :
             phase'[i] # phase[i] =>
                /\ PhaseStep(phase[i], phase'[i])
                /\ phase'[i] = "Downloading" => stream_url = StreamUrl
                /\ phase'[i] = "Uploading" =>
                     \E k \in 1..Len(log') : log'[k] = [op |-> "download_file", ok |-> TRUE]
        /\ NoticesOrdered(log') ]_vars

C9_Witness ==
    /\ Returned
    /\ phase[item.id] \in {"Done", "Degraded"}
    /\ HasOk("resolving") /\ HasOk("progress") /\ HasOk("uploading")
    /\ Has("success") /\ Has("upload_failed")

(* C10: a failed transfer is terminal: download_file is called at most once *)
(* per item, and when it returns failure send_audio is never called for the *)
(* item, which ends Failed with the download-failure status sent.           *)
C10_FailedTransferTerminal ==
    /\ Count("download_call") <= 1
    /\ HasFail("download_file") =>
        /\ ~Has("send_audio")
        /\ phase[item.id] \in {"Downloading", "Failed"}
        /\ Returned => phase[item.id] = "Failed" /\ Has("download_failed")

C10_Witness == Returned /\ HasFail("download_file") /\ HasOk("download_failed")

(* C11: send_audio is called at most once per item, and only for an item    *)
(* whose download_file returned success; a failed send_audio is not         *)
(* followed by another one.                                                 *)
C11_DeliveryOnce ==
    /\ Count("send_audio") <= 1
    /\ Has("send_audio") => Downloaded /\ ~HasFail("download_file")
    /\ \A k \in 1..Len(log) :
         (log[k].op = "send_audio" /\ ~log[k].ok) =>
            \A j \in (k + 1)..Len(log) : log[j].op # "send_audio"

C11_Witness == Returned /\ HasFail("send_audio") /\ Count("send_audio") = 1

(* the positions of the calls of one kind in the item's history *)
Where(op) == {k \in 1..Len(log) : log[k].op = op}

(* C18: between any two progress status updates of one item more than       *)
(* ThrottleInterval seconds of clock time elapse, whatever the number of    *)
(* chunks received meanwhile; hence no 5-second window holds more than 3.   *)
C18_Throttled ==
    /\ \A j, k \in Where("progress") :
         j < k => log[k].at - log[j].at > ThrottleInterval
    /\ \A t \in 0..MaxClock :
         Cardinality({k \in Where("progress") : log[k].at \in t..(t + 5)}) <= 3

C18_Witness ==
    /\ Cardinality(Where("progress")) >= 2
    /\ Cardinality(Where("callback")) >= 2

(* C19: once a transfer of known total size has succeeded, the last         *)
(* progress update sent before the uploading status reports 100%.           *)
C19_FinalReportIs100 ==
    (/\ pc = "edit_uploading"
     /\ total_size > 0
     /\ downloaded = total_size
     /\ Has("progress"))
        => \E k \in Where("progress") :
             /\ \A j \in Where("progress") : j <= k
             /\ log[k].percent = 100

(* C20: a transfer without an advertised total (total_size = 0) has called  *)
(* the progress callback, with total 0, for each chunk it received.         *)
C20_CallbackWithoutTotal ==
    (/\ pc = "edit_uploading"
     /\ total_size = 0
     /\ downloaded > 0)
        => /\ Cardinality(Where("callback")) = downloaded
           /\ \A k \in Where("callback") : log[k].total = 0

----------------------------------------------------------------------------
(* Claims about the API handler *)

(* _make_request has returned to the operation that called it *)
RequestReturned == cpc = "extract"

Answered200 == \E k \in 1..Len(reqs) : reqs[k].outcome = "200"

(* C12: one call of _make_request issues at most RetryAttempts HTTP         *)
(* requests whatever the upstream answers; without a 200 it has used them   *)
(* all when it returns, it returns None, and no exception reaches the       *)
(* caller.                                                                  *)
C12_BoundedAttempts ==
    /\ Len(reqs) <= RetryAttempts
    /\ cpc # "raised"
    /\ (RequestReturned /\ ~Answered200) =>
          /\ Len(reqs) = RetryAttempts
          /\ response = NoBody

C12_Witness ==
    /\ RequestReturned
    /\ ~Answered200
    /\ {reqs[k].outcome : k \in 1..Len(reqs)} = {"timeout", "error", "500"}

(* the number of 404 answers a call begins with *)
Leading404 ==
    LET S == {k \in 0..Len(reqs) : \A j \in 1..k : reqs[j].outcome = "404"}
    IN  CHOOSE k \in S : \A j \in S : j <= k

(* C13: in a call that starts at cursor c, if the first K requests are      *)
(* answered 404 and K + 1 <= RetryAttempts, request i went to the host at   *)
(* position c + i - 1 (mod N); if request K + 1 is answered 200, the call   *)
(* returns that body after exactly K + 1 requests with the cursor on the    *)
(* host that answered.                                                      *)
C13_FailoverTo200 ==
    RequestReturned =>
       LET K == Leading404
           N == Len(base_urls)
       IN  K + 1 <= RetryAttempts =>
              /\ Len(reqs) >= K + 1
              /\ \A i \in 1..(K + 1) :
                    reqs[i].host = base_urls[((start + i - 1) % N) + 1]
              /\ reqs[K + 1].outcome = "200" =>
                    /\ Len(reqs) = K + 1
                    /\ response = reqs[K + 1].body
                    /\ current_url_index = (start + K) % N
                    /\ base_urls[current_url_index + 1] = reqs[K + 1].host

C13_Witness ==
    /\ RequestReturned
    /\ Len(base_urls) = 2
    /\ start = 1
    /\ Len(reqs) = 3
    /\ Leading404 = 2
    /\ reqs[3].outcome = "200"
    /\ response.kind = "dict"
    /\ current_url_index = 1

(* C14: a resolver operation never raises; when it returns without a value  *)
(* extracted from a response, it has tried every endpoint and returns its   *)
(* unresolved value ([] for search_series and get_episodes, None for the    *)
(* other two).                                                              *)
C14_ResolverNeverRaises ==
    /\ cpc # "raised"
    /\ cpc = "returned" =>
          \/ /\ ret.kind = "value"
             /\ Truthy(ret.value)
          \/ /\ ret = UnresolvedValue(oper)
             /\ candidate = Endpoints(oper)
             /\ AfterExtract(ExtractFrom(oper, response)) = "next"

C14_Witness ==
    /\ cpc = "returned"
    /\ oper = "search"
    /\ ret = [kind |-> "emptylist"]
    /\ response.kind = "nondict"

(* a search body that only the third extraction rule matches *)
OnlyThirdRule == DictBody([results |-> "absent", data |-> "list", series |-> "absent"])

(* C15: when an endpoint of search_series answers 200 with a body whose     *)
(* only matching field is "data", holding a non-empty list, search_series   *)
(* returns that list.                                                       *)
C15_ThirdRuleReturned ==
    (/\ oper = "search"
     /\ cpc \in {"call", "returned"}
     /\ response = OnlyThirdRule)
        => /\ cpc = "returned"
           /\ ret = [kind |-> "value", value |-> "list", rule |-> 3]

(* the number of rotations among the registry calls i + 1 .. j *)
RotatesIn(i, j) == Cardinality({k \in (i + 1)..j : calls[k].op = "rotate"})

(* the cursor after the first k registry calls *)
IndexAfter(k) == IF k = 0 THEN 0 ELSE calls[k].index

(* C16: N rotations of an N-host registry, N >= 1, bring back the host      *)
(* that was current before them; on a one-host registry every rotation      *)
(* leaves the only host current.                                            *)
C16_Circular ==
    /\ \A i, j \in 0..Len(calls) :
          (i <= j /\ RotatesIn(i, j) = Len(base_urls)) =>
             HostAt(IndexAfter(j)) = HostAt(IndexAfter(i))
    /\ Len(base_urls) = 1 =>
          \A k \in 1..Len(calls) : calls[k].host = base_urls[1]

C16_Witness ==
    /\ Len(base_urls) = 3
    /\ Len(calls) = 4
    /\ calls[1].op = "rotate"
    /\ RotatesIn(1, 4) = 3
    /\ HostAt(current_url_index) = calls[1].host

(* C17: two consecutive calls of _get_base_url return the same host, and    *)
(* the second leaves the cursor where the first left it.                    *)
C17_CurrentIdempotent ==
    \A k \in 1..(Len(calls) - 1) :
       (calls[k].op = "current" /\ calls[k + 1].op = "current") =>
          /\ calls[k + 1].host = calls[k].host
          /\ calls[k + 1].index = calls[k].index

C17_Witness ==
    /\ Len(base_urls) >= 2
    /\ Len(calls) = 3
    /\ calls[1].op = "rotate"
    /\ calls[2].op = "current"
    /\ calls[3].op = "current"
    /\ calls[3].host = base_urls[2]

(* the host the cursor stands on once request k has been handled: the host  *)
(* of request k + 1, or the current host after the last request             *)
HostFollowing(k) ==
    IF k < Len(reqs) THEN reqs[k + 1].host ELSE HostAt(current_url_index)

(* C25: an attempt answered 404 is followed by no sleep, and the cursor is  *)
(* rotated by one: the next attempt goes to the next host.                  *)
C25_NotFoundRotatesAtOnce ==
    \A k \in 1..Len(reqs) :
       reqs[k].outcome = "404" =>
          /\ reqs[k].sleep = 0
          /\ HostFollowing(k) = HostAfter(reqs[k].host)

C25_Witness ==
    /\ RequestReturned
    /\ Len(base_urls) = 3
    /\ Len(reqs) = RetryAttempts
    /\ \A k \in 1..Len(reqs) : reqs[k].outcome = "404" /\ reqs[k].sleep = 0
    /\ current_url_index = start

(* C26: the attempt with 0-based index a answered 429 or 503 is followed by *)
(* a sleep of RetryDelay * (a + 1) and no rotation: the next attempt goes   *)
(* to the same host.                                                        *)
C26_OverloadBacksOff ==
    \A k \in 1..Len(reqs) :
       reqs[k].outcome \in {"429", "503"} =>
          /\ reqs[k].sleep = RetryDelay * k
          /\ HostFollowing(k) = reqs[k].host

C26_Witness ==
    /\ RequestReturned
    /\ Len(base_urls) >= 2
    /\ Len(reqs) = 3
    /\ reqs[1].outcome = "429"
    /\ reqs[2].outcome = "503"
    /\ reqs[2].sleep = 2 * RetryDelay
    /\ reqs[3].outcome = "200"

(* C27: an attempt that times out is followed by a sleep of RetryDelay,     *)
(* whatever its index, and no rotation: the next attempt goes to the same   *)
(* host.                                                                    *)
C27_TimeoutSleepsBase ==
    \A k \in 1..Len(reqs) :
       reqs[k].outcome = "timeout" =>
          /\ reqs[k].sleep = RetryDelay
          /\ HostFollowing(k) = reqs[k].host

C27_Witness ==
    /\ RequestReturned
    /\ Len(base_urls) >= 2
    /\ Len(reqs) = 3
    /\ reqs[2].outcome = "timeout"
    /\ reqs[3].outcome = "timeout"
    /\ reqs[3].host = reqs[2].host

(* C28: an attempt that ends in anything but 200, 404, 429, 503 or a        *)
(* timeout (another status, another exception) rotates the cursor before    *)
(* the next attempt.                                                        *)
C28_OtherErrorsRotate ==
    \A k \in 1..Len(reqs) :
       reqs[k].outcome \notin {"200", "404", "429", "503", "timeout"} =>
          HostFollowing(k) = HostAfter(reqs[k].host)

(* C30: an operation calls _make_request for its endpoints in list order,   *)
(* once each; no endpoint before the last one tried gave a usable value,    *)
(* and the operation returns a value exactly when the last one tried did.   *)
C30_CandidatesInOrder ==
    /\ Len(tried) <= Endpoints(oper)
    /\ \A i \in 1..Len(tried) : tried[i].endpoint = i
    /\ \A i \in 1..(Len(tried) - 1) : tried[i].usable = "no"
    /\ cpc = "returned" =>
          /\ tried # <<>>
          /\ ret.kind = "value" <=> tried[Len(tried)].usable = "yes"
          /\ ret.kind = "value" =>
                ret.value = ExtractFrom(oper, response).value

C30_Witness ==
    /\ cpc = "returned"
    /\ oper = "stream"
    /\ Len(tried) = 3
    /\ ret.kind = "value"
    /\ Endpoints(oper) = 4

----------------------------------------------------------------------------
(* Claims about the queue and the transfer engine *)

(* the number of times an item occurs in the queue and among the dequeued *)
Occurrences(i) ==
    Cardinality({k \in 1..Len(queue) : queue[k].id = i})
    + Cardinality({k \in 1..Len(started) : started[k] = i})

(* C22: add_to_queue is accepted whatever the queue holds and whatever the  *)
(* dispatcher is doing, for any episode value; every item submitted so far  *)
(* is in the queue or has been dequeued, exactly once in all, and nothing   *)
(* else is.                                                                 *)
C22_EnqueueSafe ==
    /\ enqueued < MaxItems =>
          \A episode \in EpisodeValues : ENABLED AddToQueue(episode)
    /\ \A i \in 1..enqueued : Occurrences(i) = 1
    /\ \A k \in 1..Len(queue) : queue[k].id \in 1..enqueued
    /\ \A k \in 1..Len(started) : started[k] \in 1..enqueued

C22_Witness ==
    /\ enqueued = MaxItems
    /\ Len(queue) = MaxItems - 1
    /\ Len(started) = 1
    /\ pc = "dl_chunk"
    /\ queue[Len(queue)].episode = NotADict

(* download_file hands a result back to _process_item *)
ReturnsFailure ==
    /\ Len(log') > Len(log)
    /\ log'[Len(log')] = [op |-> "download_file", ok |-> FALSE]
ReturnsSuccess == log' = Append(log, [op |-> "download_file", ok |-> TRUE])

InDownloadFile == {"dl_request", "dl_status", "dl_chunk"}

(* C21: download_file goes on to write the file for the statuses 200 and    *)
(* 206 and for no other: any other status makes it return False with the    *)
(* files on disk unchanged; it returns True only from the streaming of an   *)
(* accepted response; and it is left only by returning True or False,       *)
(* never by an exception.                                                   *)
C21_StatusTest ==
    /\ [](pc = "dl_status" /\ response_status \in {200, 206} =>
             ENABLED (DlStatus /\ pc' = "dl_chunk"))
    /\ [][/\ (pc = "dl_status" /\ response_status \notin {200, 206}) =>
                ReturnsFailure /\ files' = files
          /\ pc' = "dl_chunk" /\ pc # "dl_chunk" =>
                /\ pc = "dl_status"
                /\ response_status \in {200, 206}
                /\ item.episode.id \in files'
          /\ files' # files /\ pc \in InDownloadFile => pc' = "dl_chunk"
          /\ ReturnsSuccess => pc = "dl_chunk"
          /\ (pc \in InDownloadFile /\ pc' \notin InDownloadFile) =>
                \/ ReturnsFailure /\ pc' = "edit_dl_failed"
                \/ ReturnsSuccess /\ pc' = "edit_uploading"]_vars

C21_Witness ==
    /\ pc = "edit_dl_failed"
    /\ HasFail("download_file")
    /\ \E k \in Where("http_error") : log[k].status = 404
    /\ item.episode.id \notin files

----------------------------------------------------------------------------
(* Claims about the registry under mutation and under concurrent callers *)

(* C29: every host read by _get_base_url or by _rotate_url's log line is    *)
(* read at a cursor that is a valid index of the host list of that moment,  *)
(* and is the host at that index; _get_base_url called with the cursor past *)
(* the end of a shortened list resets it to 0 and returns the first host,   *)
(* and leaves an in-range cursor as it is.                                  *)
C29_CursorValidOnRead ==
    \A k \in 1..Len(calls) :
       /\ calls[k].op \in {"current", "rotate"} =>
             /\ calls[k].index \in 0..(calls[k].n - 1)
             /\ calls[k].host = calls[k].index + 1
       /\ calls[k].op = "current" =>
             IF calls[k].before >= calls[k].n
             THEN calls[k].index = 0 /\ calls[k].host = 1
             ELSE calls[k].index = calls[k].before

C29_Witness ==
    \E k \in 1..Len(calls) :
       /\ calls[k].op = "current"
       /\ calls[k].before >= calls[k].n
       /\ calls[k].n >= 2
       /\ calls[k].host = 1

(* C23: with several _make_request calls in progress at once, every rotate  *)
(* moves the cursor by exactly one position modulo N, none is lost and none *)
(* applied twice: the cursor is the number of rotations made modulo N, and  *)
(* it is a valid index in every state.                                      *)
C23_CursorSafe ==
    /\ current_url_index \in 0..(Len(base_urls) - 1)
    /\ current_url_index = rotations % Len(base_urls)

C23_Witness ==
    /\ Len(base_urls) = 3
    /\ callers["search"].pc = "sent"
    /\ callers["resolve"].pc = "sent"
    /\ callers["search"].host # callers["resolve"].host
    /\ rotations = 2
    /\ current_url_index = 2

(* the upstream gave no stream location to get_episode_download_url *)
NoLocationFromUpstream == \A k \in 1..Len(plog) : plog[k].outcome # "url"

(* C24: when no endpoint provides a stream location,                        *)
(* get_episode_download_url returns no URL and _download_and_upload ends    *)
(* the item as failed without calling download_episode.                     *)
C24_NoFabricatedUrl ==
    (/\ ppc \in {"check", "download", "downloading", "failed"}
     /\ Len(plog) = PrototypeEndpoints
     /\ NoLocationFromUpstream)
        => /\ NoDownloadUrl(download_url)
           /\ ppc \in {"check", "failed"}

----------------------------------------------------------------------------
(* Claims about the resolver's walk over its endpoints *)

(* _make_request returned the body of a 200 and the extraction rules of the *)
(* operation found nothing in it (an empty or null body included)           *)
EmptyAnswer ==
    /\ cpc = "extract"
    /\ Answered200
    /\ ~ExtractFrom(oper, response).raised
    /\ ~Truthy(ExtractFrom(oper, response).value)

(* C31: when an endpoint answers 200 with a body in which no extraction     *)
(* rule finds non-empty data, the operation goes on to the next endpoint of *)
(* its list, or returns its unresolved value after the last one; and        *)
(* _make_request is never called again for an endpoint already tried.       *)
C31_EmptyMovesOn ==
    [][/\ EmptyAnswer =>
             /\ tried' = [tried EXCEPT ![Len(tried)].usable = "no"]
             /\ IF candidate < Endpoints(oper)
                THEN /\ candidate' = candidate + 1
                     /\ cpc' = "call"
                     /\ ret' = ret
                ELSE /\ cpc' = "returned"
                     /\ ret' = UnresolvedValue(oper)
       /\ (cpc = "call" /\ cpc' # "call") =>
             /\ tried' = Append(tried, [endpoint |-> candidate, usable |-> "pending"])
             /\ \A i \in 1..Len(tried) : tried[i].endpoint < candidate]_vars

C31_Witness ==
    /\ cpc = "call"
    /\ oper = "stream"
    /\ candidate = 3
    /\ Len(tried) = 2
    /\ Answered200
    /\ response.kind = "falsy"

----------------------------------------------------------------------------
(* Claims about the progress values and the dispatcher's error handling *)

(* C32: every call of the progress callback passes downloaded * 100 / total *)
(* as the percentage, the percentage lies between 0 and 100, and the byte   *)
(* count never decreases from one call to the next.                         *)
C32_ProgressInRange ==
    \A k \in Where("callback") :
       /\ log[k].total > 0
       /\ log[k].percent = Percent(log[k].downloaded, log[k].total)
       /\ log[k].percent \in 0..100
       /\ \A j \in Where("callback") :
             j < k => log[j].downloaded <= log[k].downloaded

(* C33: an exception that escapes _process_item into process_queue is       *)
(* followed by a sleep of QueueErrorDelay seconds before queue.get is       *)
(* awaited again: the loop neither returns to the wait at once nor ends,    *)
(* and the sleep leaves the queue as it is.  A timeout of the wait on an    *)
(* empty queue returns to the wait at once: no sleep, no change of state.   *)
C33_QueueErrorDelay ==
    /\ [](pc \notin {"stopped"})
    /\ [](pc = "queue_error" => ENABLED QueueError)
    /\ [](pc = "sleep" => ENABLED SleepDone)
    /\ [](pc = "wait" /\ queue = <<>> => ENABLED GetTimeout)
    /\ [][/\ (pc = "queue_error" /\ pc' # pc) =>
                /\ pc' = "sleep"
                /\ log' = Append(log, Slept(5))
                /\ queue' = queue
          /\ (pc = "sleep" /\ pc' # pc) =>
                /\ pc' = "wait"
                /\ log[Len(log)] = Slept(5)
                /\ queue' = queue
          /\ (pc' = "wait" /\ pc # "wait") => pc \in {"task_done", "sleep"}
          /\ (pc' = "sleep" /\ pc # "sleep") => pc = "queue_error"
          /\ (pc = "wait" /\ queue = <<>>) =>
                /\ pc' = "wait"
                /\ log' = log
                /\ now' = now
                /\ queue' = queue \/ \E episode \in EpisodeValues : AddToQueue(episode)]_vars

C33_Witness ==
    /\ pc = "sleep"
    /\ log = <<Slept(QueueErrorDelay)>>
    /\ phase[1] = "Failed"
    /\ queue # <<>>

(* C34: with the default registry and retry limit, on an upstream where     *)
(* exactly one (host, endpoint) pair answers 200 with a stream location and *)
(* every other pair answers 404, get_stream_url returns that location,      *)
(* whatever the cursor it starts from.                                      *)
C34_TrialComplete ==
    (cpc = "returned" /\ oper = "stream") =>
        ret = [kind |-> "value", value |-> "string", rule |-> 1]

----------------------------------------------------------------------------
(* Claims about requests in flight at the same time *)

(* C35: with several _make_request calls in progress on a registry of two   *)
(* or more hosts, the request a call sends right after a 404 from host h    *)
(* goes to a host other than h.                                             *)
C35_LeavesAbandonedHost ==
    [][\A c \in Callers :
          (/\ Len(base_urls) >= 2
           /\ callers[c].pc = "sent"
           /\ callers'[c].pc = "sent"
           /\ callers'[c].attempt = callers[c].attempt + 1
           /\ callers'[c].last = "404")
             => callers'[c].host # callers[c].host]_vars

----------------------------------------------------------------------------
(* Claims about the end of an item *)

(* C36: the upload-failed status is sent for an item only when send_audio   *)
(* failed for it: after a successful send_audio no upload-failed status is  *)
(* sent, whatever becomes of the notifications that follow.                 *)
C36_UploadFailedOnlyOnFailure ==
    HasOk("send_audio") => ~Has("upload_failed")

(* C37: when an item ends Failed before delivery was attempted (no stream   *)
(* URL, a failed download, or an exception of a step before send_audio),    *)
(* no local file of the item is on disk once _process_item has returned.    *)
C37_FailedLeavesNoArtifact ==
    (/\ Returned
     /\ phase[item.id] = "Failed"
     /\ ~Has("send_audio"))
        => item.episode.id \notin files

----------------------------------------------------------------------------
(* Claims about what _make_request leaves behind *)

(* an attempt is made in this step: a request is added to the history *)
Attempted == Len(reqs') = Len(reqs) + 1

(* C38: the cursor changes only by a rotation of one position, and only in  *)
(* an attempt: entering and leaving _make_request and the operations around *)
(* it never reset it, so the first attempt of a call goes to the host the   *)
(* previous call left the cursor on; an attempt that ends in 200, 429, 503  *)
(* or a timeout leaves the cursor where it was.                             *)
C38_CursorPersists ==
    /\ [](cpc = "request" /\ reqs = <<>> => current_url_index = start)
    /\ [][/\ current_url_index' # current_url_index =>
                /\ Attempted
                /\ current_url_index' = (current_url_index + 1) % Len(base_urls)
          /\ Attempted =>
                /\ reqs'[Len(reqs')].host = base_urls[current_url_index + 1]
                /\ reqs'[Len(reqs')].outcome \in {"200", "429", "503", "timeout"} =>
                      current_url_index' = current_url_index
          /\ (cpc = "call" /\ cpc' = "request") => start' = current_url_index]_vars

C38_Witness ==
    /\ cpc = "request"
    /\ Len(base_urls) = 3
    /\ candidate = 2
    /\ start = 2
    /\ Len(reqs) = 2
    /\ reqs[1].host = 3
    /\ reqs[1].outcome = "429"
    /\ reqs[2].outcome = "timeout"
    /\ current_url_index = 2

(* the seconds slept after the first k requests of the current call *)
RECURSIVE SleptIn(_)
SleptIn(k) == IF k = 0 THEN 0 ELSE SleptIn(k - 1) + reqs[k].sleep

(* C39: one call of _make_request sleeps at most                            *)
(* RetryDelay * RetryAttempts * (RetryAttempts + 1) / 2 seconds in all (12  *)
(* with the defaults), whatever the upstream answers; and the sleep that    *)
(* follows the last attempt is performed like the others before None is     *)
(* returned.                                                                *)
C39_BackoffBounded ==
    /\ SleptIn(Len(reqs)) <= (RetryDelay * RetryAttempts * (RetryAttempts + 1)) \div 2
    /\ SleptIn(Len(reqs)) <= 12
    /\ \A k \in 1..Len(reqs) :
          /\ reqs[k].outcome \in {"429", "503"} => reqs[k].sleep = RetryDelay * k
          /\ reqs[k].outcome = "timeout" => reqs[k].sleep = RetryDelay
    /\ (RequestReturned /\ ~Answered200) =>
          /\ response = NoBody
          /\ reqs[RetryAttempts].outcome \in {"429", "503", "timeout"} =>
                reqs[RetryAttempts].sleep > 0

C39_Witness ==
    /\ RequestReturned
    /\ Len(reqs) = RetryAttempts
    /\ \A k \in 1..Len(reqs) : reqs[k].outcome \in {"429", "503"}
    /\ reqs[RetryAttempts].sleep = 6
    /\ SleptIn(Len(reqs)) = 12
    /\ response = NoBody

----------------------------------------------------------------------------
(* Claims about a progress update that fails *)

(* the step in which the progress callback's edit of the status message     *)
(* raises                                                                   *)
ProgressFails ==
    /\ Len(log') = Len(log) + 2
    /\ log'[Len(log')].op = "progress"
    /\ ~log'[Len(log')].ok

(* C40: a progress update that raises changes nothing but the history: the  *)
(* chunk it followed is written, the transfer stays in its chunk loop, the  *)
(* throttle timestamp is advanced to the time of the call, and afterwards   *)
(* the transfer can take further chunks and end in success, the item going  *)
(* on to the uploading status, as after an update that succeeded.           *)
C40_ProgressFailureHarmless ==
    /\ [](pc = "dl_chunk" /\ HasFail("progress") /\ downloaded < MaxChunks =>
             ENABLED (DlChunk /\ downloaded' = downloaded + 1))
    /\ [](pc = "dl_chunk" /\ HasFail("progress") /\ BodyComplete =>
             ENABLED (DlChunk /\ pc' = "edit_uploading"))
    /\ [][ProgressFails =>
             /\ pc = "dl_chunk"
             /\ pc' = "dl_chunk"
             /\ downloaded' = downloaded + 1
             /\ last_update' = now
             /\ log'[Len(log')].at = now
             /\ <<files', phase', total_size', status_msg'>> =
                   <<files, phase, total_size, status_msg>>]_vars

C40_Witness ==
    /\ pc = "edit_uploading"
    /\ HasFail("progress")
    /\ ~HasOk("progress")
    /\ total_size = 2
    /\ downloaded = 2
    /\ phase[item.id] = "Uploading"
    /\ last_update > 0

====
